---- MODULE Spec2Model ----
(***************************************************************************)
(* gensystemd.py: generation of a systemd unit file from (name, command),  *)
(* and the three flows of main: preview, --save and --install.             *)
(*                                                                         *)
(* A Python str is a sequence of one-character strings, so that endswith,  *)
(* str.format, the '/' of pathlib and the lines of the unit file are       *)
(* computed character by character.                                        *)
(***************************************************************************)
EXTENDS Integers, Sequences, FiniteSets, TLC

\* ------------------------------------------------------------------ bounds
\* Inputs are built from fragments; at most MaxFrags fragments are spent on
\* the name and the command together.
MaxFrags == 3

\* --------------------------------------------------------------- literals
RootUid == 0
Mode644 == 420

DotService == <<".", "s", "e", "r", "v", "i", "c", "e">>
SystemdDir == <<"/", "e", "t", "c", "/", "s", "y", "s", "t", "e", "m", "d", "/", "s", "y", "s", "t", "e", "m">>
DescriptionPrefix == <<"C", "u", "s", "t", "o", "m", " ", "s", "e", "r", "v", "i", "c", "e", ":", " ">>
DescriptionField == <<"d", "e", "s", "c", "r", "i", "p", "t", "i", "o", "n">>
CommandField == <<"c", "o", "m", "m", "a", "n", "d">>
Systemctl == <<"s", "y", "s", "t", "e", "m", "c", "t", "l">>
DaemonReload == <<"d", "a", "e", "m", "o", "n", "-", "r", "e", "l", "o", "a", "d">>
EnableCmd == <<"e", "n", "a", "b", "l", "e">>

SERVICE_TEMPLATE ==
       <<"[", "U", "n", "i", "t", "]", "\n">>
    \o <<"D", "e", "s", "c", "r", "i", "p", "t", "i", "o", "n", "=", "{", "d", "e", "s", "c", "r", "i", "p", "t", "i", "o", "n", "}", "\n">>
    \o <<"A", "f", "t", "e", "r", "=", "n", "e", "t", "w", "o", "r", "k", ".", "t", "a", "r", "g", "e", "t", " ", "n", "e", "t", "w", "o", "r", "k", "-", "o", "n", "l", "i", "n", "e", ".", "t", "a", "r", "g", "e", "t", "\n">>
    \o <<"W", "a", "n", "t", "s", "=", "n", "e", "t", "w", "o", "r", "k", "-", "o", "n", "l", "i", "n", "e", ".", "t", "a", "r", "g", "e", "t", "\n">>
    \o <<"\n">>
    \o <<"[", "S", "e", "r", "v", "i", "c", "e", "]", "\n">>
    \o <<"T", "y", "p", "e", "=", "s", "i", "m", "p", "l", "e", "\n">>
    \o <<"E", "x", "e", "c", "S", "t", "a", "r", "t", "=", "/", "b", "i", "n", "/", "b", "a", "s", "h", " ", "-", "c", " ", "\"", "{", "c", "o", "m", "m", "a", "n", "d", "}", "\"", "\n">>
    \o <<"R", "e", "s", "t", "a", "r", "t", "=", "a", "l", "w", "a", "y", "s", "\n">>
    \o <<"R", "e", "s", "t", "a", "r", "t", "S", "e", "c", "=", "1", "0", "\n">>
    \o <<"U", "s", "e", "r", "=", "r", "o", "o", "t", "\n">>
    \o <<"\n">>
    \o <<"[", "I", "n", "s", "t", "a", "l", "l", "]", "\n">>
    \o <<"W", "a", "n", "t", "e", "d", "B", "y", "=", "m", "u", "l", "t", "i", "-", "u", "s", "e", "r", ".", "t", "a", "r", "g", "e", "t", "\n">>

\* ------------------------------------------------------- string helpers
Min(S) == CHOOSE x \in S : \A y \in S : x <= y

\* str.endswith(suffix): exact, case-sensitive comparison of the tail
EndsWith(s, suffix) ==
    /\ Len(s) >= Len(suffix)
    /\ SubSeq(s, Len(s) - Len(suffix) + 1, Len(s)) = suffix

StartsWithAt(s, i, prefix) ==
    /\ i + Len(prefix) - 1 <= Len(s)
    /\ SubSeq(s, i, i + Len(prefix) - 1) = prefix

\* str.split(sep) for a one-character separator
RECURSIVE Split(_, _)
Split(s, sep) ==
    LET at == {i \in 1..Len(s) : s[i] = sep}
    IN  IF at = {} THEN <<s>>
        ELSE <<SubSeq(s, 1, Min(at) - 1)>> \o Split(SubSeq(s, Min(at) + 1, Len(s)), sep)

\* ------------------------------------------------------------ str.format
\* string.Formatter.parse: the template as (literal_text, field_name) pairs;
\* the last pair has no field.
RECURSIVE formatter_parser(_)
formatter_parser(t) ==
    LET opens == {i \in 1..Len(t) : t[i] = "{"}
    IN  IF opens = {}
        THEN <<[literal_text |-> t, has_field |-> FALSE, field_name |-> <<>>]>>
        ELSE LET o == Min(opens)
                 close == Min({i \in o..Len(t) : t[i] = "}"})
             IN  <<[literal_text |-> SubSeq(t, 1, o - 1), has_field |-> TRUE,
                    field_name |-> SubSeq(t, o + 1, close - 1)]>>
                 \o formatter_parser(SubSeq(t, close + 1, Len(t)))

TemplateFields == formatter_parser(SERVICE_TEMPLATE)

\* str.format(**kwargs): each field is replaced by the value as it is; the
\* value is not scanned for braces and nothing in it is escaped.
RECURSIVE vformat(_, _)
vformat(fields, kwargs) ==
    IF fields = <<>> THEN <<>>
    ELSE LET f == Head(fields)
         IN  f.literal_text
             \o (IF f.has_field THEN kwargs[f.field_name] ELSE <<>>)
             \o vformat(Tail(fields), kwargs)

\* ---------------------------------------------------------------- pathlib
\* PurePosixPath(s): the root and the components of s; empty components and
\* "." components are dropped, exactly two leading slashes are kept as "//".
PurePath(s) ==
    [root  |-> IF Len(s) >= 1 /\ s[1] = "/"
               THEN IF Len(s) >= 2 /\ s[2] = "/" /\ ~(Len(s) >= 3 /\ s[3] = "/")
                    THEN <<"/", "/">>
                    ELSE <<"/">>
               ELSE <<>>,
     parts |-> SelectSeq(Split(s, "/"), LAMBDA p : p # <<>> /\ p # <<".">>)]

\* path / s: an absolute right operand replaces the left one
PathJoin(path, s) ==
    LET q == PurePath(s)
    IN  IF q.root # <<>> THEN q
        ELSE [root |-> path.root, parts |-> path.parts \o q.parts]

\* path.name
PathName(path) ==
    IF path.parts = <<>> THEN <<>> ELSE path.parts[Len(path.parts)]

NoPath == [root |-> <<>>, parts |-> <<>>]

\* --------------------------------------------------------- pure functions
generate_service_content_Escaped(service_name, command) ==
    LET description == DescriptionPrefix \o service_name
        RECURSIVE quote(_)
        quote(s) == IF s = <<>> THEN <<>>
                    ELSE (IF Head(s) = "\"" THEN <<"\\", "\"">> ELSE <<Head(s)>>)
                         \o quote(Tail(s))
    IN  vformat(TemplateFields,
                (DescriptionField :> description) @@ (CommandField :> quote(command)))

generate_service_content(service_name, command) ==
    LET description == DescriptionPrefix \o service_name
    IN  vformat(TemplateFields,
                (DescriptionField :> description) @@ (CommandField :> command))

get_service_path_AlwaysAppend(service_name) ==
    PathJoin(PurePath(SystemdDir), service_name \o DotService)

get_service_path(service_name) ==
    LET name == IF ~EndsWith(service_name, DotService)
                THEN service_name \o DotService
                ELSE service_name
    IN  PathJoin(PurePath(SystemdDir), name)

check_root_privileges_Always(uid) == TRUE

check_root_privileges(uid) == uid = RootUid

\* run_systemctl_command: the argument vector handed to subprocess.run; an
\* empty service_name is falsy and is not appended
full_command(command, service_name) ==
    <<Systemctl>> \o command
    \o (IF service_name # <<>> THEN <<service_name>> ELSE <<>>)

\* main: "return 0 if success else 1"
ReturnCode_Swapped(ok) == IF ok THEN 1 ELSE 0

ReturnCode(ok) == IF ok THEN 0 ELSE 1

\* argparse: parser.error() ends the process with status 2
UsageExit == 2

\* ------------------------------------------------------------------ inputs
DescriptionKey == <<"D", "e", "s", "c", "r", "i", "p", "t", "i", "o", "n", "=">>
ExecStartKey == <<"E", "x", "e", "c", "S", "t", "a", "r", "t", "=">>

NameFragments ==
    {<<"a">>, <<"/">>, <<"\n">>, DotService,
     <<".", "S", "e", "r", "v", "i", "c", "e">>, DescriptionKey}

CommandFragments == {<<"b">>, <<"\"">>, <<"\n">>, ExecStartKey}

RECURSIVE Words(_, _)
Words(frags, k) ==
    IF k = 0 THEN {<<>>}
    ELSE {f \o w : f \in frags, w \in Words(frags, k - 1)}

Inputs ==
    UNION {Words(NameFragments, ij[1]) \X Words(CommandFragments, ij[2]) :
             ij \in {p \in (0..MaxFrags) \X (0..MaxFrags) : p[1] + p[2] <= MaxFrags}}

Uids == {RootUid, 1000}

\* the file at the resolved path before the run: absent, or left by an
\* earlier run with other content and mode 0600
NoFile == [exists |-> FALSE, data |-> <<>>, mode |-> 0]
OldFile == [exists |-> TRUE, data |-> <<"o">>, mode |-> 384]

\* mode of a file created by open(): 0666 masked by umask 022 or 077
CreateModes == {420, 384}

\* ------------------------------------------------------------------- state
VARIABLES
    pc,               \* position of the run
    args,             \* argparse namespace: name, command, install, save
    euid,             \* os.geteuid()
    service_content,  \* main: service_content
    service_path,     \* install_service / save_only_service: service_path
    file,             \* the file at service_path
    calls,            \* collaborators invoked so far, in order, with outcome
    stdout,           \* text printed by print()
    success,          \* value returned by the selected flow
    exit_code,        \* status handed to sys.exit
    interrupted       \* KeyboardInterrupt was raised

vars == <<pc, args, euid, service_content, service_path, file, calls, stdout,
          success, exit_code, interrupted>>

Call(op, ok, argv) == [op |-> op, ok |-> ok, argv |-> argv]

Mode == IF args.install THEN "install" ELSE IF args.save THEN "save" ELSE "preview"

Init ==
    /\ pc = "start"
    /\ \/ \E in \in Inputs, install \in BOOLEAN, save \in BOOLEAN :
            args = [wellformed |-> TRUE, name |-> in[1], command |-> in[2],
                    install |-> install, save |-> save]
       \/ args = [wellformed |-> FALSE, name |-> <<>>, command |-> <<>>,
                  install |-> FALSE, save |-> FALSE]
    /\ euid \in Uids
    /\ service_content = <<>>
    /\ service_path = NoPath
    /\ file \in {NoFile, OldFile}
    /\ calls = <<>>
    /\ stdout = <<>>
    /\ success = "unset"
    /\ exit_code = -1
    /\ interrupted = FALSE

\* sys.exit(code)
Exit(code) ==
    /\ pc' = "exited"
    /\ exit_code' = code

\* a flow returns False: main returns 1
FlowFails ==
    /\ success' = "False"
    /\ Exit(ReturnCode(FALSE))

\* parser.parse_args(): a command line argparse rejects ends the process
ParseArgs ==
    /\ pc = "start"
    /\ IF args.wellformed
       THEN pc' = "validate" /\ UNCHANGED exit_code
       ELSE Exit(UsageExit)
    /\ UNCHANGED <<args, euid, service_content, service_path, file, calls,
                   stdout, success, interrupted>>

ValidateArgs_NoCheck ==
    /\ pc = "validate"
    /\ pc' = "generate"
    /\ UNCHANGED <<args, euid, service_content, service_path, file, calls,
                   stdout, success, exit_code, interrupted>>

\* main: "if args.install and args.save: return 1"
ValidateArgs ==
    /\ pc = "validate"
    /\ IF args.install /\ args.save
       THEN Exit(1)
       ELSE pc' = "generate" /\ UNCHANGED exit_code
    /\ UNCHANGED <<args, euid, service_content, service_path, file, calls,
                   stdout, success, interrupted>>

\* main: service_content = generate_service_content(args.name, args.command)
GenerateContent ==
    /\ pc = "generate"
    /\ service_content' = generate_service_content(args.name, args.command)
    /\ calls' = Append(calls, Call("generate_service_content", TRUE, <<>>))
    /\ pc' = "mode"
    /\ UNCHANGED <<args, euid, service_path, file, stdout, success, exit_code,
                   interrupted>>

Preview_RootOnly ==
    /\ pc = "mode"
    /\ Mode = "preview"
    /\ calls' = Append(calls, Call("check_root_privileges", euid = RootUid, <<>>))
    /\ IF euid = RootUid
       THEN stdout' = stdout \o service_content \o <<"\n">> /\ Exit(0)
       ELSE UNCHANGED stdout /\ Exit(1)
    /\ UNCHANGED <<args, euid, service_content, service_path, file, success,
                   interrupted>>

\* main, default branch: print(service_content); return 0
Preview ==
    /\ pc = "mode"
    /\ Mode = "preview"
    /\ stdout' = stdout \o service_content \o <<"\n">>
    /\ calls' = Append(calls, Call("print", TRUE, <<>>))
    /\ Exit(0)
    /\ UNCHANGED <<args, euid, service_content, service_path, file, success,
                   interrupted>>

\* install_service / save_only_service: "if not check_root_privileges(): return False"
CheckRoot ==
    /\ pc = "mode"
    /\ Mode \in {"install", "save"}
    /\ LET ok == check_root_privileges(euid)
       IN  /\ calls' = Append(calls, Call("check_root_privileges", ok, <<>>))
           /\ IF ok
              THEN pc' = "resolve" /\ UNCHANGED <<success, exit_code>>
              ELSE FlowFails
    /\ UNCHANGED <<args, euid, service_content, service_path, file, stdout,
                   interrupted>>

\* service_path = get_service_path(service_name)
ResolvePath ==
    /\ pc = "resolve"
    /\ service_path' = get_service_path(args.name)
    /\ calls' = Append(calls, Call("get_service_path", TRUE, <<>>))
    /\ pc' = "mkdir"
    /\ UNCHANGED <<args, euid, service_content, file, stdout, success,
                   exit_code, interrupted>>

\* save_service_file: service_path.parent.mkdir(parents=True, exist_ok=True);
\* PermissionError and any other Exception both return False
Mkdir ==
    /\ pc = "mkdir"
    /\ \E ok \in BOOLEAN :
         /\ calls' = Append(calls, Call("mkdir", ok, <<>>))
         /\ IF ok
            THEN pc' = "open" /\ UNCHANGED <<success, exit_code>>
            ELSE FlowFails
    /\ UNCHANGED <<args, euid, service_content, service_path, file, stdout,
                   interrupted>>

\* save_service_file: open(service_path, 'w') creates or truncates the file
OpenFile ==
    /\ pc = "open"
    /\ \E ok \in BOOLEAN, m \in CreateModes :
         /\ calls' = Append(calls, Call("open", ok, <<>>))
         /\ IF ok
            THEN /\ file' = [exists |-> TRUE, data |-> <<>>,
                             mode |-> IF file.exists THEN file.mode ELSE m]
                 /\ pc' = "write"
                 /\ UNCHANGED <<success, exit_code>>
            ELSE /\ UNCHANGED file
                 /\ FlowFails
    /\ UNCHANGED <<args, euid, service_content, service_path, stdout,
                   interrupted>>

\* save_service_file: f.write(content), then the with block closes the file
WriteFile ==
    /\ pc = "write"
    /\ \E ok \in BOOLEAN :
         /\ calls' = Append(calls, Call("write", ok, <<>>))
         /\ IF ok
            THEN /\ file' = [file EXCEPT !.data = service_content]
                 /\ pc' = "chmod"
                 /\ UNCHANGED <<success, exit_code>>
            ELSE /\ UNCHANGED file
                 /\ FlowFails
    /\ UNCHANGED <<args, euid, service_content, service_path, stdout,
                   interrupted>>

Chmod_Unchecked ==
    /\ pc = "chmod"
    /\ \E ok \in BOOLEAN :
         /\ calls' = Append(calls, Call("chmod", ok, <<>>))
         /\ file' = IF ok THEN [file EXCEPT !.mode = Mode644] ELSE file
         /\ IF Mode = "save"
            THEN success' = "True" /\ Exit(ReturnCode(TRUE))
            ELSE pc' = "reload" /\ UNCHANGED <<success, exit_code>>
    /\ UNCHANGED <<args, euid, service_content, service_path, stdout,
                   interrupted>>

\* save_service_file: os.chmod(service_path, 0o644); return True.  In the
\* save flow this ends the run with success, in the install flow the reload
\* follows.
Chmod ==
    /\ pc = "chmod"
    /\ \E ok \in BOOLEAN :
         /\ calls' = Append(calls, Call("chmod", ok, <<>>))
         /\ IF ok
            THEN /\ file' = [file EXCEPT !.mode = Mode644]
                 /\ IF Mode = "save"
                    THEN success' = "True" /\ Exit(ReturnCode(TRUE))
                    ELSE pc' = "reload" /\ UNCHANGED <<success, exit_code>>
            ELSE /\ UNCHANGED file
                 /\ FlowFails
    /\ UNCHANGED <<args, euid, service_content, service_path, stdout,
                   interrupted>>

Reload_Unchecked ==
    /\ pc = "reload"
    /\ \E ok \in BOOLEAN :
         calls' = Append(calls, Call("systemctl", ok, full_command(<<DaemonReload>>, <<>>)))
    /\ pc' = "enable"
    /\ UNCHANGED <<args, euid, service_content, service_path, file, stdout,
                   success, exit_code, interrupted>>

\* install_service: "if not run_systemctl_command(['daemon-reload']): return False"
Reload ==
    /\ pc = "reload"
    /\ \E ok \in BOOLEAN :
         /\ calls' = Append(calls, Call("systemctl", ok, full_command(<<DaemonReload>>, <<>>)))
         /\ IF ok
            THEN pc' = "enable" /\ UNCHANGED <<success, exit_code>>
            ELSE FlowFails
    /\ UNCHANGED <<args, euid, service_content, service_path, file, stdout,
                   interrupted>>

Enable_Rollback ==
    /\ pc = "enable"
    /\ \E ok \in BOOLEAN :
         /\ calls' = Append(calls, Call("systemctl", ok, full_command(<<EnableCmd>>, args.name)))
         /\ IF ok
            THEN UNCHANGED file /\ success' = "True" /\ Exit(ReturnCode(TRUE))
            ELSE file' = NoFile /\ FlowFails
    /\ UNCHANGED <<args, euid, service_content, service_path, stdout,
                   interrupted>>

\* install_service: "if not run_systemctl_command(['enable'], service_name):
\* return False", else return True
Enable ==
    /\ pc = "enable"
    /\ \E ok \in BOOLEAN :
         /\ calls' = Append(calls, Call("systemctl", ok, full_command(<<EnableCmd>>, args.name)))
         /\ IF ok
            THEN success' = "True" /\ Exit(ReturnCode(TRUE))
            ELSE FlowFails
    /\ UNCHANGED <<args, euid, service_content, service_path, file, stdout,
                   interrupted>>

\* __main__: KeyboardInterrupt at any point of the run ends it with status 1
Interrupt ==
    /\ pc # "exited"
    /\ interrupted' = TRUE
    /\ Exit(1)
    /\ UNCHANGED <<args, euid, service_content, service_path, file, calls,
                   stdout, success>>

Next ==
    \/ ParseArgs
    \/ ValidateArgs
    \/ GenerateContent
    \/ Preview
    \/ CheckRoot
    \/ ResolvePath
    \/ Mkdir
    \/ OpenFile
    \/ WriteFile
    \/ Chmod
    \/ Reload
    \/ Enable
    \/ Interrupt

Spec == Init /\ [][Next]_vars

\* ----------------------------------------------------------- observations
FsOps == {"mkdir", "open", "write", "chmod"}

Ops(S) == {i \in DOMAIN calls : calls[i].op \in S}

SystemctlCalls == SelectSeq(calls, LAMBDA c : c.op = "systemctl")

IsReload(c) == c.op = "systemctl" /\ c.argv = <<Systemctl, DaemonReload>>

IsEnable(c) == c.op = "systemctl" /\ Len(c.argv) >= 2 /\ c.argv[2] = EnableCmd

FileUntouched == file \in {NoFile, OldFile}

Generated == Ops({"generate_service_content"}) # {}

Resolved == Ops({"get_service_path"}) # {}

\* ------------------------------------------------------------------ claims

\* C1: when the privilege check returns false (effective uid is not 0), the
\* save flow and the install flow write nothing to the filesystem, run no
\* systemctl command, return failure and the run ends with status 1.
C1_NoEffectsWithoutRoot ==
    (Mode \in {"install", "save"} /\ ~(args.install /\ args.save) /\ euid # RootUid) =>
        /\ Ops(FsOps \cup {"systemctl"}) = {}
        /\ FileUntouched
        /\ (Ops({"check_root_privileges"}) # {} => success = "False")
        /\ success # "True"
        /\ (pc = "exited" => exit_code = 1)

C1_Witness ==
    /\ Mode \in {"install", "save"}
    /\ ~(args.install /\ args.save)
    /\ euid # RootUid
    /\ pc = "exited"
    /\ ~interrupted
    /\ calls[Len(calls)] = Call("check_root_privileges", FALSE, <<>>)
    /\ success = "False"

\* C2: in the install flow, when daemon-reload succeeds and enable fails, the
\* flow returns failure, the unit file written earlier is still on disk with
\* the rendered content, and systemctl was run exactly twice: daemon-reload
\* once, then enable once.
ReloadOkEnableFailed ==
    /\ \E i \in DOMAIN calls : IsReload(calls[i]) /\ calls[i].ok
    /\ \E i \in DOMAIN calls : IsEnable(calls[i]) /\ ~calls[i].ok

C2_EnableFailureKeepsFile ==
    (Mode = "install" /\ ReloadOkEnableFailed) =>
        /\ success = "False"
        /\ pc = "exited" /\ exit_code = 1
        /\ file.exists /\ file.data = service_content
        /\ Len(SystemctlCalls) = 2
        /\ IsReload(SystemctlCalls[1])
        /\ IsEnable(SystemctlCalls[2])

C2_Witness ==
    /\ Mode = "install"
    /\ ReloadOkEnableFailed
    /\ pc = "exited"
    /\ file.exists

\* C3: the file name of the resolved path and the service name passed to
\* "systemctl enable" are the same string, for every supplied name, names
\* without the '.service' suffix included.  Stated for plain names (not
\* empty, no '/', no line break), where the file name is the whole
\* normalized name.
PlainName(s) == s # <<>> /\ \A i \in DOMAIN s : s[i] \notin {"/", "\n"}

C3_SameNameForPathAndEnable ==
    PlainName(args.name) =>
        \A i \in DOMAIN calls :
            IsEnable(calls[i]) =>
                /\ Len(calls[i].argv) = 3
                /\ calls[i].argv[3] = PathName(service_path)

\* C4: with both --install and --save, main returns 1 before any
\* collaborator is invoked: nothing is generated, no path is resolved, no
\* privilege check is made, no file is written and no command is run.
C4_ConflictingFlagsFailFirst ==
    (args.install /\ args.save) =>
        /\ calls = <<>>
        /\ service_content = <<>>
        /\ service_path = NoPath
        /\ FileUntouched
        /\ stdout = <<>>
        /\ success = "unset"
        /\ (pc = "exited" => exit_code = 1)

C4_Witness ==
    /\ args.install /\ args.save
    /\ pc = "exited"
    /\ ~interrupted
    /\ exit_code = 1

\* C5: the install flow runs its steps in the order privilege check, path,
\* write (mkdir, open, write, chmod), daemon-reload, enable; a step is
\* attempted only if every earlier step succeeded, and the flow returns
\* success exactly when every step, the enable included, succeeded.
InstallSteps ==
    <<"generate_service_content", "check_root_privileges", "get_service_path",
      "mkdir", "open", "write", "chmod", "systemctl", "systemctl">>

C5_InstallOrderAndShortCircuit ==
    Mode = "install" =>
        /\ Len(calls) <= Len(InstallSteps)
        /\ \A i \in DOMAIN calls : calls[i].op = InstallSteps[i]
        /\ \A i \in DOMAIN calls : i < Len(calls) => calls[i].ok
        /\ Len(calls) >= 8 => IsReload(calls[8])
        /\ Len(calls) >= 9 => IsEnable(calls[9])
        /\ success = "True" <=>
              (Len(calls) = Len(InstallSteps) /\ \A i \in DOMAIN calls : calls[i].ok)
        /\ (\E i \in DOMAIN calls : ~calls[i].ok) => (success = "False" /\ pc = "exited")

C5_Witness ==
    /\ Mode = "install"
    /\ success = "True"
    /\ Len(calls) = Len(InstallSteps)
    /\ pc = "exited"

\* C6: the exit status is 0 when the selected flow succeeds and 1 on any
\* failure or interrupt; no other status is produced.
FlowSucceeded ==
    /\ ~interrupted
    /\ ~(args.install /\ args.save)
    /\ calls # <<>>
    /\ calls[Len(calls)].ok
    /\ calls[Len(calls)].op =
         (CASE Mode = "preview" -> "print"
            [] Mode = "save" -> "chmod"
            [] Mode = "install" -> "systemctl")
    /\ Mode = "install" => IsEnable(calls[Len(calls)])

C6_ExitCodeZeroOrOne ==
    pc = "exited" =>
        /\ exit_code \in {0, 1}
        /\ exit_code = 0 <=> FlowSucceeded

\* C6 as amended: for a command line that argparse accepts, the exit status
\* is 0 when the selected flow succeeds and 1 on any failure or interrupt; a
\* command line argparse rejects ends with status 2 (1 if interrupted).
C6_ExitCodeOfParsedRun ==
    pc = "exited" =>
        /\ args.wellformed =>
             /\ exit_code \in {0, 1}
             /\ exit_code = 0 <=> FlowSucceeded
        /\ ~args.wellformed => exit_code = IF interrupted THEN 1 ELSE UsageExit

C6_Witness ==
    /\ pc = "exited"
    /\ args.wellformed
    /\ Mode = "install"
    /\ ~interrupted
    /\ exit_code = 1
    /\ \E i \in DOMAIN calls : IsEnable(calls[i]) /\ ~calls[i].ok

\* C7: in preview mode (neither --install nor --save) the run makes no
\* privilege check, changes nothing on the filesystem and runs no command;
\* unless interrupted it prints the rendered unit text and ends with status
\* 0, whatever the effective user is.
C7_PreviewHasNoSideEffects ==
    (args.wellformed /\ Mode = "preview") =>
        /\ Ops(FsOps \cup {"systemctl", "check_root_privileges", "get_service_path"}) = {}
        /\ FileUntouched
        /\ service_path = NoPath
        /\ (pc = "exited" /\ ~interrupted) =>
              /\ exit_code = 0
              /\ stdout = generate_service_content(args.name, args.command) \o <<"\n">>

C7_Witness ==
    /\ args.wellformed
    /\ Mode = "preview"
    /\ euid # RootUid
    /\ pc = "exited"
    /\ exit_code = 0
    /\ stdout # <<>>

\* C8: resolving n and n + '.service' gives the same path when n does not
\* end in '.service'; the resolved file name always ends in '.service'; a
\* name that already ends in exactly '.service' gets no second suffix.
C8_SuffixRuleIdempotent ==
    Resolved =>
        /\ ~EndsWith(args.name, DotService) =>
              service_path = get_service_path(args.name \o DotService)
        /\ EndsWith(PathName(service_path), DotService)
        /\ EndsWith(args.name, DotService) =>
              service_path = PathJoin(PurePath(SystemdDir), args.name)
        /\ ~EndsWith(args.name, DotService) =>
              service_path = PathJoin(PurePath(SystemdDir), args.name \o DotService)

C8_Witness ==
    /\ Resolved
    /\ args.name = <<"a", ".", "S", "e", "r", "v", "i", "c", "e">>
    /\ PathName(service_path) = args.name \o DotService

\* C9: for all non-empty (name, command) pairs the generated text has
\* exactly one line starting with 'Description=', equal to
\* 'Description=Custom service: <name>', and exactly one line starting with
\* 'ExecStart=', which contains <command> verbatim.
LinesStarting(text, key) ==
    SelectSeq(Split(text, "\n"), LAMBDA l : StartsWithAt(l, 1, key))

Contains(s, sub) ==
    \E i \in 1..(Len(s) - Len(sub) + 1) : StartsWithAt(s, i, sub)

OneDescriptionOneExecStart ==
    LET d == LinesStarting(service_content, DescriptionKey)
        e == LinesStarting(service_content, ExecStartKey)
    IN  /\ Len(d) = 1
        /\ d[1] = DescriptionKey \o DescriptionPrefix \o args.name
        /\ Len(e) = 1
        /\ Contains(e[1], args.command)

C9_OneDescriptionOneExecStart ==
    (Generated /\ args.name # <<>> /\ args.command # <<>>) =>
        OneDescriptionOneExecStart

\* C9 as amended: the same, for non-empty (name, command) pairs that contain
\* no line break.
NoLineBreak(s) == \A i \in DOMAIN s : s[i] # "\n"

C9_OneDescriptionOneExecStartSingleLine ==
    (/\ Generated
     /\ args.name # <<>> /\ args.command # <<>>
     /\ NoLineBreak(args.name) /\ NoLineBreak(args.command)) =>
        OneDescriptionOneExecStart

C9_Witness ==
    /\ Generated
    /\ args.name = DescriptionKey
    /\ args.command = <<"\"">> \o ExecStartKey
    /\ OneDescriptionOneExecStart

\* C10: whenever a systemctl command has been run, the file writer returned
\* success before it in the same run and the unit file exists at the
\* resolved path with the rendered content and mode 0644; a write that fails
\* at mkdir, open, write or chmod is followed by no systemctl command, and
\* the save flow runs none.
C10_CommandsOnlyAfterWrite ==
    /\ \A i \in DOMAIN calls :
          calls[i].op = "systemctl" =>
             /\ \A op \in FsOps : \E j \in 1..(i - 1) : calls[j].op = op /\ calls[j].ok
             /\ Resolved
             /\ file = [exists |-> TRUE, data |-> service_content, mode |-> Mode644]
             /\ service_content = generate_service_content(args.name, args.command)
    /\ (\E j \in DOMAIN calls : calls[j].op \in FsOps /\ ~calls[j].ok) =>
          Ops({"systemctl"}) = {}
    /\ Mode = "save" => Ops({"systemctl"}) = {}

C10_Witness ==
    /\ Mode = "install"
    /\ Ops({"systemctl"}) # {}
    /\ file = [exists |-> TRUE, data |-> service_content, mode |-> Mode644]
    /\ pc = "enable"
====
